---- MODULE Spec2Model ----
(***************************************************************************)
(* ManifoldGeometry (the adapter around a shared manifold::Manifold),      *)
(* PolySetUtils::getGeometryAsPolySet and PolySetUtils::tessellate_faces.  *)
(*                                                                         *)
(* Two specifications share the module:                                    *)
(*   Spec      the adapter, toPolyhedron and the dispatcher;               *)
(*   TessSpec  tessellate_faces applied once and then to its own output.   *)
(*                                                                         *)
(* The boolean kernel, the exact kernel and the triangulator are external. *)
(* A solid is abstracted to a set of unit cells on a ring of               *)
(* MaxCoord + 1 positions: union, intersection, difference, affine maps    *)
(* and Minkowski sums are exact on that abstraction.                       *)
(***************************************************************************)
EXTENDS Integers, Sequences, FiniteSets, TLC

VARIABLES
  manifold_,   \* adapter -> the shared_ptr it holds (a heap id, or Null)
  heap,        \* heap id -> the manifold::Manifold stored there, or Free
  NDEBUG,      \* whether assert() is compiled out in this build
  crashed,     \* "no", or the assertion that aborted the process
  emitted,     \* messages the most recent call handed to LOG, in order
  last,        \* the most recent call: its name, operands and pre-state
  ret,         \* what the most recent toPolyhedron / getGeometryAsPolySet returned
  tess         \* the state of the tessellation pipeline (TessSpec)

vars == <<manifold_, heap, NDEBUG, crashed, emitted, last, ret, tess>>

----------------------------------------------------------------------------
(* Bounds *)

\* cells of the abstract space are 0..MaxCoord
MaxCoord == 2

Adapters == {"A", "B"}

Null == 0
SolidIds == 1..Cardinality(Adapters)
Free == [status |-> "Free", cells |-> {}]

Cells == 0..MaxCoord
Ring == MaxCoord + 1

----------------------------------------------------------------------------
(* The boolean kernel, manifold::Manifold, as the adapter uses it *)

ErrorStatus == {"NotManifold", "NonFiniteVertex"}

\* A solid with an error status holds no geometry.
Solids ==
  [status : {"NoError"}, cells : SUBSET Cells]
    \cup [status : ErrorStatus, cells : {{}}]

\* manifold::Manifold()
EmptyManifold == [status |-> "NoError", cells |-> {}]

Status(m) == m.status
IsEmpty(m) == m.cells = {}
NumTri(m) == Cardinality(m.cells)
NumVert(m) == Cardinality(m.cells)

PosInf == MaxCoord + 1
NegInf == 0 - 1

Min(S) == CHOOSE x \in S : \A y \in S : x <= y
Max(S) == CHOOSE x \in S : \A y \in S : x >= y

\* manifold::Manifold::BoundingBox(): an empty solid has the inverted box
KernelBoundingBox(m) ==
  IF m.cells = {} THEN [min |-> PosInf, max |-> NegInf]
  ELSE [min |-> Min(m.cells), max |-> Max(m.cells)]

\* Boolean on two solids free of errors
BooleanCells(p, q, opType) ==
  CASE opType = "Add" -> p \cup q
    [] opType = "Intersect" -> p \cap q
    [] opType = "Subtract" -> p \ q

\* manifold::Manifold::Boolean.  With an operand that carries an error the
\* result is not defined by the kernel's contract: it may carry that error
\* on, or treat the operand as the empty solid it holds.
Boolean(p, q, opType) ==
  LET computed == [status |-> "NoError",
                   cells |-> BooleanCells(p.cells, q.cells, opType)]
      errs == {m.status : m \in {x \in {p, q} : x.status # "NoError"}}
  IN  IF errs = {} THEN {computed}
      ELSE {computed} \cup {[status |-> e, cells |-> {}] : e \in errs}

\* Transform3d: the affine map x |-> a * x + t, as the caller's matrix mat(row, col)
Transform3d == [a : {1, MaxCoord}, t : Cells]
Identity3d == [a |-> 1, t |-> 0]

\* glm::mat4x3 glMat(...): the matrix re-ordered into columns
glMat(mat) == <<mat.a, mat.t>>

\* manifold::Manifold::Transform: maps every point; the status is kept
KernelTransform(m, gl) ==
  [status |-> m.status,
   cells |-> {(gl[1] * c + gl[2]) % Ring : c \in m.cells}]

\* Cells in ascending order, the kernel's vertex order
RECURSIVE SortedCells(_)
SortedCells(S) ==
  IF S = {} THEN <<>> ELSE <<Min(S)>> \o SortedCells(S \ {Min(S)})

\* number of interleaved property channels per vertex in MeshGL
NumProp == 4

RECURSIVE Flatten(_)
Flatten(ss) == IF ss = <<>> THEN <<>> ELSE Head(ss) \o Flatten(Tail(ss))

\* manifold::Manifold::GetMeshGL(): interleaved vertex properties (xyz first)
\* and a flat triangle index buffer
GetMeshGL(m) ==
  LET vs == SortedCells(m.cells)
  IN  [numProp |-> NumProp,
       vertProperties |->
         Flatten([i \in 1..Len(vs) |-> <<vs[i], 0, 0, 7>>]),
       triVerts |->
         Flatten([i \in 1..Len(vs) |-> <<i - 1, i - 1, i - 1>>])]

\* manifold::Manifold::GetMesh(): vertPos and triVerts as triples
GetMesh(m) ==
  LET vs == SortedCells(m.cells)
  IN  [vertPos |-> [i \in 1..Len(vs) |-> <<vs[i], 0, 0>>],
       triVerts |-> [i \in 1..Len(vs) |-> <<i - 1, i - 1, i - 1>>]]

----------------------------------------------------------------------------
(* PolySet *)

\* PolySet(dim): a fresh, empty mesh
NewPolySet(dim) ==
  [oid |-> 0, dim |-> dim, vertices |-> <<>>, indices |-> <<>>,
   convexity |-> 1, convex |-> "unknown"]

PolySetIsEmpty(ps) == ps.indices = <<>>

----------------------------------------------------------------------------
(* ManifoldGeometry: queries *)

getManifold(h, p) == h[p]

isEmpty(h, p) == IsEmpty(getManifold(h, p))
numFacets(h, p) == NumTri(getManifold(h, p))
numVertices(h, p) == NumVert(getManifold(h, p))
isManifold(h, p) == Status(getManifold(h, p)) = "NoError"
isValid(h, p) == Status(h[p]) = "NoError"

\* BoundingBox::extend(point)
Extend(box, pt) ==
  [min |-> IF pt < box.min THEN pt ELSE box.min,
   max |-> IF pt > box.max THEN pt ELSE box.max]

getBoundingBox(h, p) ==
  LET bbox == KernelBoundingBox(getManifold(h, p))
      result == [min |-> PosInf, max |-> NegInf]
  IN  Extend(Extend(result, bbox.min), bbox.max)

\* the strided loops of toPolySet over the MeshGL buffers
toPolySetOf(m) ==
  LET mesh == GetMeshGL(m)
      nv == Len(mesh.vertProperties) \div mesh.numProp
      nt == Len(mesh.triVerts) \div 3
  IN  [NewPolySet(3) EXCEPT
         !.vertices = [k \in 1..nv |->
            <<mesh.vertProperties[(k - 1) * mesh.numProp + 1],
              mesh.vertProperties[(k - 1) * mesh.numProp + 2],
              mesh.vertProperties[(k - 1) * mesh.numProp + 3]>>],
         !.indices = [k \in 1..nt |->
            <<mesh.triVerts[(k - 1) * 3 + 1],
              mesh.triVerts[(k - 1) * 3 + 2],
              mesh.triVerts[(k - 1) * 3 + 3]>>]]

toPolySet(h, p) == toPolySetOf(getManifold(h, p))

\* every query the adapter answers, for the adapter holding pointer p
Queries(h, p) ==
  [isEmpty |-> isEmpty(h, p),
   numFacets |-> numFacets(h, p),
   numVertices |-> numVertices(h, p),
   isValid |-> isValid(h, p),
   getBoundingBox |-> getBoundingBox(h, p),
   toPolySet |-> toPolySet(h, p)]

----------------------------------------------------------------------------
(* The exact kernel and the other collaborators outside the adapter *)

\* CGAL_Nef_polyhedron: p3 may be absent; isEmpty() is !p3 || p3->is_empty()
EmptyNef == [hasP3 |-> FALSE, cells |-> {}, convexity |-> 1]
NefIsEmpty(N) == ~N.hasP3 \/ N.cells = {}

\* the positions a mesh's faces refer to
MeshCells(ps) ==
  {ps.vertices[ps.indices[f][k] + 1][1] :
     f \in DOMAIN ps.indices, k \in 1..3}

\* CGALUtils::createNefPolyhedronFromPolySet
createNefPolyhedronFromPolySet(ps) ==
  IF PolySetIsEmpty(ps) THEN EmptyNef
  ELSE [hasP3 |-> TRUE, cells |-> MeshCells(ps), convexity |-> 1]

\* CGAL_Nef_polyhedron::minkowski
NefMinkowski(l, r) ==
  [l EXCEPT !.cells = {(x + y) % Ring : x \in l.cells, y \in r.cells}]

\* a value that may be a null pointer
NullPS == [null |-> TRUE, ps |-> NewPolySet(3)]
SomePS(ps) == [null |-> FALSE, ps |-> ps]

\* CGALUtils::createPolySetFromNefPolyhedron3: null when the conversion fails
createPolySetFromNefPolyhedron3(cells, ok) ==
  IF ok THEN SomePS(toPolySetOf([status |-> "NoError", cells |-> cells]))
  ELSE NullPS

\* ManifoldUtils::trustedPolySetToManifold
trustedPolySetToManifold(ps) ==
  [status |-> "NoError", cells |-> MeshCells(ps)]

\* GeometryUtils::getResizeTransform
getResizeTransform(bbox, newsize, autosize) ==
  IF newsize = 0 /\ ~autosize THEN Identity3d
  ELSE [a |-> 1, t |-> (newsize + (bbox.max - bbox.min)) % Ring]

\* CGALHybridPolyhedron::toPolySet
hybridToPolySet(cells) ==
  SomePS(toPolySetOf([status |-> "NoError", cells |-> cells]))

----------------------------------------------------------------------------
(* PolySetUtils::getGeometryAsPolySet *)

ErrNefFailed == "ERROR: Nef->PolySet failed."
ErrCGAL == "ERROR: CGAL error in CGALUtils::createPolyhedronFromPolySet"
WarnDegenerate == "WARNING: PolySet has degenerate polygons"

\* getGeometryAsPolySet, had it passed a failed Nef conversion's null on
getGeometryAsPolySet_NullOnFailure(geom, convOk) ==
  IF geom.kind = "PolySet" THEN [result |-> SomePS(geom.ps), msgs |-> <<>>]
  ELSE IF geom.kind = "CGAL_Nef_polyhedron" THEN
    LET N == geom.nef
        conv == createPolySetFromNefPolyhedron3(N.cells, convOk)
    IN  IF NefIsEmpty(N)
        THEN [result |-> SomePS(NewPolySet(3)), msgs |-> <<>>]
        ELSE [result |-> conv,
              msgs |-> IF conv.null THEN <<ErrNefFailed>> ELSE <<>>]
  ELSE IF geom.kind = "CGALHybridPolyhedron"
  THEN [result |-> hybridToPolySet(geom.nef.cells), msgs |-> <<>>]
  ELSE IF geom.kind = "ManifoldGeometry"
  THEN [result |-> SomePS(toPolySetOf(geom.solid)), msgs |-> <<>>]
  ELSE [result |-> NullPS, msgs |-> <<>>]

\* geom: [kind, ps, nef, solid]; convOk: the outcome of the Nef conversion.
\* Returns the pointer and the messages logged.
getGeometryAsPolySet(geom, convOk) ==
  IF geom.kind = "PolySet" THEN [result |-> SomePS(geom.ps), msgs |-> <<>>]
  ELSE IF geom.kind = "CGAL_Nef_polyhedron" THEN
    LET N == geom.nef
        conv == createPolySetFromNefPolyhedron3(N.cells, convOk)
    IN  IF ~NefIsEmpty(N) /\ ~conv.null
        THEN [result |-> SomePS([conv.ps EXCEPT !.convexity = N.convexity]),
              msgs |-> <<>>]
        ELSE [result |-> SomePS(NewPolySet(3)),
              msgs |-> IF ~NefIsEmpty(N) THEN <<ErrNefFailed>> ELSE <<>>]
  ELSE IF geom.kind = "CGALHybridPolyhedron"
  THEN [result |-> hybridToPolySet(geom.nef.cells), msgs |-> <<>>]
  ELSE IF geom.kind = "ManifoldGeometry"
  THEN [result |-> SomePS(toPolySetOf(geom.solid)), msgs |-> <<>>]
  ELSE [result |-> NullPS, msgs |-> <<>>]

----------------------------------------------------------------------------
(* ManifoldGeometry::toPolyhedron and the incremental builder *)

EmptyPolyhedron == [vertices |-> <<>>, facets |-> <<>>]

\* the calls CGALPolyhedronBuilderFromManifold::operator() makes, in order
BuilderCalls(mesh) ==
  <<[call |-> "begin_surface", arg |-> <<>>]>>
    \o [i \in 1..Len(mesh.vertPos) |->
          [call |-> "add_vertex", arg |-> mesh.vertPos[i]]]
    \o Flatten([i \in 1..Len(mesh.triVerts) |->
          <<[call |-> "begin_facet", arg |-> <<>>],
            [call |-> "add_vertex_to_facet", arg |-> <<mesh.triVerts[i][1]>>],
            [call |-> "add_vertex_to_facet", arg |-> <<mesh.triVerts[i][2]>>],
            [call |-> "add_vertex_to_facet", arg |-> <<mesh.triVerts[i][3]>>],
            [call |-> "end_facet", arg |-> mesh.triVerts[i]]>>])
    \o <<[call |-> "end_surface", arg |-> <<>>]>>

\* what one accepted builder call leaves in the halfedge structure
BuilderStep(hds, c) ==
  IF c.call = "add_vertex"
  THEN [hds EXCEPT !.vertices = Append(@, c.arg)]
  ELSE IF c.call = "end_facet"
  THEN [hds EXCEPT !.facets = Append(@, c.arg)]
  ELSE hds

\* the halfedge structure after the first n calls were accepted
RECURSIVE RunBuilder(_, _, _)
RunBuilder(hds, calls, n) ==
  IF n = 0 \/ calls = <<>> THEN hds
  ELSE RunBuilder(BuilderStep(hds, Head(calls)), Tail(calls), n - 1)

\* rejectAt = 0: every call is accepted; rejectAt = k: call k throws
\* CGAL::Assertion_exception.  Returns the handle and the messages logged.
toPolyhedron(m, rejectAt) ==
  LET p == EmptyPolyhedron
      calls == BuilderCalls(GetMesh(m))
  IN  IF rejectAt = 0
      THEN [p |-> RunBuilder(p, calls, Len(calls)), msgs |-> <<>>]
      ELSE [p |-> RunBuilder(p, calls, rejectAt - 1), msgs |-> <<ErrCGAL>>]

----------------------------------------------------------------------------
(* The heap of shared manifold::Manifold objects *)

\* the slots still referenced once adapter a has let go of its handle
HeldWithout(a) == {manifold_[b] : b \in Adapters \ {a}}

\* std::make_shared<manifold::Manifold>(...) assigned to a's manifold_: the
\* new object takes the lowest address no other adapter refers to (the
\* object a alone held is destroyed by the assignment)
Alloc(a) == Min(SolidIds \ HeldWithout(a))

\* shared_ptr's reference count: an object no adapter holds is destroyed
Collect(h, ptrs) ==
  [i \in SolidIds |->
     IF \E a \in Adapters : ptrs[a] = i THEN h[i] ELSE Free]

\* the most recent call returned nothing
NoRet == [kind |-> "none"]

\* the most recent call took no input besides adapters
NoArg == [kind |-> "none"]

CallWith(op, self, other, arg) ==
  [op |-> op, self |-> self, other |-> other, arg |-> arg,
   pre |-> manifold_, preHeap |-> heap]

Call(op, self, other) == CallWith(op, self, other, NoArg)

\* the call returns: the adapters' handles, the heap, the log and the result
Return(op, self, other, ptrs, h, msgs, r) ==
  /\ manifold_' = ptrs
  /\ heap' = Collect(h, ptrs)
  /\ emitted' = msgs
  /\ last' = Call(op, self, other)
  /\ ret' = r
  /\ UNCHANGED <<NDEBUG, crashed, tess>>

\* a failed assert() aborts the process
Abort(op, self, other, what) ==
  /\ crashed' = what
  /\ last' = Call(op, self, other)
  /\ emitted' = <<>>
  /\ ret' = NoRet
  /\ UNCHANGED <<manifold_, heap, NDEBUG, tess>>

\* getManifold(): assert(manifold_), then the dereference; on a null handle
\* the assert aborts, and without it the dereference does
WithManifold(op, self, other, ptrsUsed, act) ==
  IF \A q \in ptrsUsed : q # Null THEN act
  ELSE Abort(op, self, other,
             IF NDEBUG THEN "getManifold: null dereference"
             ELSE "getManifold: assert(manifold_)")

\* Replace, had it written the new value into the object manifold_ points to
ReplaceInPlace(op, a, other, value, msgs) ==
  Return(op, a, other, manifold_, [heap EXCEPT ![manifold_[a]] = value],
         msgs, NoRet)

\* manifold_ = std::make_shared<manifold::Manifold>(value), in adapter a
Replace(op, a, other, value, msgs) ==
  LET id == Alloc(a)
  IN  Return(op, a, other, [manifold_ EXCEPT ![a] = id],
             [heap EXCEPT ![id] = value], msgs, NoRet)

----------------------------------------------------------------------------
(* ManifoldGeometry: constructors, copy, assignment *)

\* ManifoldGeometry()
DefaultConstruct(a) ==
  /\ crashed = "no"
  /\ Replace("ManifoldGeometry()", a, a, EmptyManifold, <<>>)

\* ConstructFrom, had it kept a null handle instead of calling clear()
ConstructFrom_NoFallback(a, isNull, value) ==
  /\ crashed = "no"
  /\ IF ~isNull
     THEN Replace("ManifoldGeometry(mani)", a, a, value, <<>>)
     ELSE IF ~NDEBUG
     THEN Abort("ManifoldGeometry(null)", a, a,
                "ManifoldGeometry(mani): assert(manifold_)")
     ELSE Return("ManifoldGeometry(null)", a, a,
                 [manifold_ EXCEPT ![a] = Null], heap, <<>>, NoRet)

\* ManifoldGeometry(const std::shared_ptr<manifold::Manifold>& mani):
\* isNull says the caller's handle is null, value is the solid it points to
ConstructFrom(a, isNull, value) ==
  /\ crashed = "no"
  /\ IF ~isNull
     THEN Replace("ManifoldGeometry(mani)", a, a, value, <<>>)
     ELSE IF ~NDEBUG
     THEN Abort("ManifoldGeometry(null)", a, a,
                "ManifoldGeometry(mani): assert(manifold_)")
     ELSE Replace("ManifoldGeometry(null)", a, a, EmptyManifold, <<>>)

\* ManifoldGeometry(const ManifoldGeometry& other), also behind copy()
CopyConstruct(a, other) ==
  /\ crashed = "no"
  /\ a # other
  /\ Return("copy", a, other, [manifold_ EXCEPT ![a] = manifold_[other]],
            heap, <<>>, NoRet)

\* operator=
Assign(a, other) ==
  /\ crashed = "no"
  /\ Return("operator=", a, other,
            [manifold_ EXCEPT ![a] = manifold_[other]], heap, <<>>, NoRet)

----------------------------------------------------------------------------
(* ManifoldGeometry: mutating operations *)

clear(a) ==
  /\ crashed = "no"
  /\ Replace("clear", a, a, EmptyManifold, <<>>)

\* the solid transform() stores
transformed(m, mat) == KernelTransform(m, glMat(mat))

transform(a, mat) ==
  /\ crashed = "no"
  /\ WithManifold("transform", a, a, {manifold_[a]},
       Replace("transform", a, a,
               transformed(getManifold(heap, manifold_[a]), mat), <<>>))

resize(a, newsize, autosize) ==
  /\ crashed = "no"
  /\ WithManifold("resize", a, a, {manifold_[a]},
       Replace("resize", a, a,
               transformed(getManifold(heap, manifold_[a]),
                           getResizeTransform(getBoundingBox(heap, manifold_[a]),
                                              newsize, autosize)),
               <<>>))

\* binOp: the solids the kernel may hand back for lhs op rhs
binOp(lhs, rhs, opType) == Boolean(lhs, rhs, opType)

BooleanOperator(name, a, other, opType) ==
  /\ crashed = "no"
  /\ WithManifold(name, a, other, {manifold_[a], manifold_[other]},
       \E r \in binOp(getManifold(heap, manifold_[a]),
                      getManifold(heap, manifold_[other]), opType) :
         Replace(name, a, other, r, <<>>))

OpAdd(a, other) == BooleanOperator("operator+=", a, other, "Add")
OpMul(a, other) == BooleanOperator("operator*=", a, other, "Intersect")
OpSub(a, other) == BooleanOperator("operator-=", a, other, "Subtract")

\* minkowskiResult, had it treated an empty operand as a failure
minkowskiResult_EmptyIsError(m, o, convOk) ==
  LET lhs == createNefPolyhedronFromPolySet(toPolySetOf(m))
      rhs == createNefPolyhedronFromPolySet(toPolySetOf(o))
      sum == NefMinkowski(lhs, rhs)
  IN  IF NefIsEmpty(lhs) \/ NefIsEmpty(rhs)
      THEN [solid |-> [status |-> "NotManifold", cells |-> {}],
            msgs |-> <<ErrCGAL>>]
      ELSE [solid |-> [status |-> "NoError", cells |-> sum.cells],
            msgs |-> <<>>]

\* what minkowski() leaves in manifold_ and in the log, given both solids and
\* the outcome of the conversion back from the Nef polyhedron
minkowskiResult(m, o, convOk) ==
  LET lhs == createNefPolyhedronFromPolySet(toPolySetOf(m))
      rhs == createNefPolyhedronFromPolySet(toPolySetOf(o))
      sum == NefMinkowski(lhs, rhs)
      got == getGeometryAsPolySet(
               [kind |-> "CGAL_Nef_polyhedron", ps |-> NewPolySet(3),
                nef |-> sum, solid |-> EmptyManifold], convOk)
  IN  IF NefIsEmpty(lhs) \/ NefIsEmpty(rhs)
      THEN [solid |-> EmptyManifold, msgs |-> <<>>]
      ELSE IF got.result.null
      THEN [solid |-> EmptyManifold, msgs |-> got.msgs]
      ELSE [solid |-> trustedPolySetToManifold(got.result.ps),
            msgs |-> got.msgs]

minkowski(a, other, convOk) ==
  /\ crashed = "no"
  /\ WithManifold("minkowski", a, other, {manifold_[a], manifold_[other]},
       LET r == minkowskiResult(getManifold(heap, manifold_[a]),
                                getManifold(heap, manifold_[other]), convOk)
       IN  Replace("minkowski", a, other, r.solid, r.msgs))

----------------------------------------------------------------------------
(* Conversions out of the adapter *)

\* the most builder calls any solid of the model needs
MaxCalls == Len(BuilderCalls(GetMesh([status |-> "NoError", cells |-> Cells])))

CallToPolyhedron(a, rejectAt) ==
  /\ crashed = "no"
  /\ WithManifold("toPolyhedron", a, a, {manifold_[a]},
       LET m == getManifold(heap, manifold_[a])
           r == toPolyhedron(m, rejectAt)
       IN  /\ rejectAt <= Len(BuilderCalls(GetMesh(m)))
           /\ manifold_' = manifold_
           /\ heap' = heap
           /\ emitted' = r.msgs
           /\ last' = CallWith("toPolyhedron", a, a,
                               [rejectAt |-> rejectAt])
           /\ ret' = [kind |-> "polyhedron", null |-> FALSE, poly |-> r.p]
           /\ UNCHANGED <<NDEBUG, crashed, tess>>)

\* the geometry values handed to the dispatcher
Nefs == [hasP3 : BOOLEAN, cells : SUBSET Cells, convexity : {1, 2}]

InputPolySets ==
  {[toPolySetOf([status |-> "NoError", cells |-> c]) EXCEPT !.oid = 1] :
     c \in SUBSET Cells}

Geometries ==
  [kind : {"PolySet"}, ps : InputPolySets, nef : {EmptyNef},
   solid : {EmptyManifold}]
  \cup [kind : {"CGAL_Nef_polyhedron"}, ps : {NewPolySet(3)},
        nef : {N \in Nefs : N.hasP3 \/ N.cells = {}}, solid : {EmptyManifold}]
  \cup [kind : {"CGALHybridPolyhedron"}, ps : {NewPolySet(3)},
        nef : {N \in Nefs : N.hasP3 /\ N.convexity = 1},
        solid : {EmptyManifold}]
  \cup [kind : {"ManifoldGeometry"}, ps : {NewPolySet(3)}, nef : {EmptyNef},
        solid : {heap[manifold_[a]] : a \in Adapters}]
  \cup [kind : {"Polygon2d"}, ps : {NewPolySet(3)}, nef : {EmptyNef},
        solid : {EmptyManifold}]

CallGetGeometryAsPolySet(geom, convOk) ==
  /\ crashed = "no"
  /\ LET r == getGeometryAsPolySet(geom, convOk)
     IN  /\ manifold_' = manifold_
         /\ heap' = heap
         /\ emitted' = r.msgs
         /\ last' = CallWith("getGeometryAsPolySet", "-", "-",
                             [geom |-> geom, convOk |-> convOk])
         /\ ret' = [kind |-> "polyset", null |-> r.result.null,
                    ps |-> r.result.ps]
         /\ UNCHANGED <<NDEBUG, crashed, tess>>

----------------------------------------------------------------------------
(* Spec: the adapters and the conversions *)

NoTess == [pc |-> "idle"]

Init ==
  /\ manifold_ = [a \in Adapters |-> IF a = "A" THEN 1 ELSE 2]
  /\ heap = [i \in SolidIds |-> EmptyManifold]
  /\ NDEBUG \in BOOLEAN
  /\ crashed = "no"
  /\ emitted = <<>>
  /\ last = [op |-> "init", self |-> "-", other |-> "-", arg |-> NoArg,
             pre |-> [a \in Adapters |-> IF a = "A" THEN 1 ELSE 2],
             preHeap |-> [i \in SolidIds |-> EmptyManifold]]
  /\ ret = NoRet
  /\ tess = NoTess

Next ==
  \/ \E a \in Adapters : DefaultConstruct(a)
  \/ \E a \in Adapters, isNull \in BOOLEAN, value \in Solids :
       (isNull => value = EmptyManifold) /\ ConstructFrom(a, isNull, value)
  \/ \E a, other \in Adapters : CopyConstruct(a, other)
  \/ \E a, other \in Adapters : Assign(a, other)
  \/ \E a \in Adapters : clear(a)
  \/ \E a \in Adapters, mat \in Transform3d : transform(a, mat)
  \/ \E a \in Adapters, newsize \in Cells, autosize \in BOOLEAN :
       (autosize => newsize = 0) /\ resize(a, newsize, autosize)
  \/ \E a, other \in Adapters : OpAdd(a, other)
  \/ \E a, other \in Adapters : OpMul(a, other)
  \/ \E a, other \in Adapters : OpSub(a, other)
  \/ \E a, other \in Adapters, convOk \in BOOLEAN : minkowski(a, other, convOk)

Spec == Init /\ [][Next]_vars

\* NoBooleanSpec: the adapter without +=, *= and -=, whose result on an
\* operand in error the kernel leaves open
NoBooleanNext ==
  \/ \E a \in Adapters, value \in Solids : ConstructFrom(a, FALSE, value)
  \/ \E a, other \in Adapters : CopyConstruct(a, other)
  \/ \E a, other \in Adapters : Assign(a, other)
  \/ \E a \in Adapters : clear(a)
  \/ \E a \in Adapters, mat \in Transform3d : transform(a, mat)
  \/ \E a \in Adapters, newsize \in Cells, autosize \in BOOLEAN :
       (autosize => newsize = 0) /\ resize(a, newsize, autosize)
  \/ \E a, other \in Adapters, convOk \in BOOLEAN : minkowski(a, other, convOk)

NoBooleanSpec == Init /\ [][NoBooleanNext]_vars

----------------------------------------------------------------------------
(* ConvSpec: solids handed to adapter A, then converted *)

ConvNext ==
  \/ \E value \in Solids : ConstructFrom("A", FALSE, value)
  \/ \E a \in Adapters, rejectAt \in 0..MaxCalls : CallToPolyhedron(a, rejectAt)
  \/ \E geom \in Geometries, convOk \in BOOLEAN :
       CallGetGeometryAsPolySet(geom, convOk)

ConvSpec == Init /\ [][ConvNext]_vars

----------------------------------------------------------------------------
(* PolySetUtils::tessellate_faces *)

\* faces per input mesh, indices over all its faces, and triangles the
\* triangulator hands back for one polygon
MaxFaces == 2
MaxIndices == 4
MaxTriangles == 2

\* v.cast<float>(), componentwise: the doubles 2k and 2k + 1 round to the
\* float 2k
castCoord(d) == 2 * (d \div 2)
castFloat(v) == <<castCoord(v[1]), castCoord(v[2]), castCoord(v[3])>>

\* Reindexer<T>::lookup: the index of v, appended when it is new.
\* Indices count from 0; the array is a sequence.
IndexOf(arr, v) == Min({i \in 1..Len(arr) : arr[i] = v}) - 1

lookup(arr, v) ==
  IF \E i \in 1..Len(arr) : arr[i] = v
  THEN [arr |-> arr, idx |-> IndexOf(arr, v)]
  ELSE [arr |-> Append(arr, v), idx |-> Len(arr)]

Front(q) == q[1]
Back(q) == q[Len(q)]
PopBack(q) == SubSeq(q, 1, Len(q) - 1)

\* the inner loop over one polygon's indices: every vertex is looked up and
\* an index equal to the one before it is skipped
RECURSIVE IndexLoop(_, _, _, _)
IndexLoop(vertices, pgon, arr, currface) ==
  IF pgon = <<>> THEN [arr |-> arr, currface |-> currface]
  ELSE LET v == vertices[Head(pgon) + 1]
           l == lookup(arr, castFloat(v))
       IN  IndexLoop(vertices, Tail(pgon), l.arr,
                     IF currface = <<>> \/ l.idx # Back(currface)
                     THEN Append(currface, l.idx) ELSE currface)

\* the closing duplicate is removed
CloseLoop(currface) ==
  IF Front(currface) = Back(currface) THEN PopBack(currface) ELSE currface

\* the first loop of tessellate_faces, over polyset.indices:
\* st = [allVertices, polygons, degeneratePolygons]
RECURSIVE BuildIndexed(_, _, _)
BuildIndexed(vertices, indices, st) ==
  IF indices = <<>> THEN st
  ELSE LET pgon == Head(indices)
       IN  IF Len(pgon) < 3
           THEN BuildIndexed(vertices, Tail(indices),
                  [st EXCEPT !.degeneratePolygons = @ + 1])
           ELSE LET r == IndexLoop(vertices, pgon, st.allVertices, <<>>)
                    currface == CloseLoop(r.currface)
                IN  BuildIndexed(vertices, Tail(indices),
                      [st EXCEPT
                         !.allVertices = r.arr,
                         !.polygons = IF Len(currface) < 3 THEN @
                                      ELSE Append(@, currface)])

\* GeometryUtils::tessellatePolygonWithHoles, as far as its caller depends on
\* it: it fails, or hands back triangles whose corners are three different
\* vertices of the polygon, in the polygon's order
TrianglesOf(face) ==
  {<<face[i], face[j], face[k]>> :
     <<i, j, k>> \in {t \in (DOMAIN face) \X (DOMAIN face) \X (DOMAIN face) :
                        /\ t[1] < t[2] /\ t[2] < t[3]
                        /\ face[t[1]] # face[t[2]]
                        /\ face[t[2]] # face[t[3]]
                        /\ face[t[1]] # face[t[3]]}}

tessellatePolygonWithHoles(face) ==
  [err : {TRUE}, triangles : {<<>>}]
    \cup [err : {FALSE},
          triangles : UNION {[1..n -> TrianglesOf(face)] : n \in 0..MaxTriangles}]

\* EmitFace, had it sent triangles through the triangulator as well
EmitFace_NoTrivialCase(face) ==
  {IF o.err THEN <<>> ELSE o.triangles : o \in tessellatePolygonWithHoles(face)}

\* EmitFace, had it passed quads through like triangles
EmitFace_QuadsAsIs(face) ==
  IF Len(face) <= 4 THEN {<<face>>}
  ELSE {IF o.err THEN <<>> ELSE o.triangles :
          o \in tessellatePolygonWithHoles(face)}

\* the body of the second loop for one polygon: the faces it may append
EmitFace(face) ==
  IF Len(face) = 3 THEN {<<face>>}
  ELSE {IF o.err THEN <<>> ELSE o.triangles :
          o \in tessellatePolygonWithHoles(face)}

\* the second loop: every sequence of faces the builder may have received
RECURSIVE EmitAll(_)
EmitAll(polygons) ==
  IF polygons = <<>> THEN {<<>>}
  ELSE {first \o rest : first \in EmitFace(Head(polygons)),
                        rest \in EmitAll(Tail(polygons))}

\* PolySetBuilder::vertexIndex for every entry of verts, in order
RECURSIVE BuilderVertices(_, _)
BuilderVertices(verts, arr) ==
  IF verts = <<>> THEN arr
  ELSE BuilderVertices(Tail(verts), lookup(arr, Head(verts)).arr)

\* every outcome of tessellate_faces(polyset): the mesh built, the count of
\* degenerate polygons and the messages logged
tessellate_faces(polyset) ==
  LET st == BuildIndexed(polyset.vertices, polyset.indices,
              [allVertices |-> <<>>, polygons |-> <<>>,
               degeneratePolygons |-> 0])
      verts == st.allVertices
  IN  {[ps |-> [oid |-> 0, dim |-> polyset.dim,
                vertices |-> BuilderVertices(verts, <<>>),
                indices |-> faces,
                convexity |-> polyset.convexity,
                convex |-> polyset.convex],
        degeneratePolygons |-> st.degeneratePolygons,
        msgs |-> IF st.degeneratePolygons > 0 THEN <<WarnDegenerate>>
                 ELSE <<>>] : faces \in EmitAll(st.polygons)}

----------------------------------------------------------------------------
(* TessSpec: a mesh is tessellated, and the result tessellated again *)

\* vertex arrays of the input meshes: one with two doubles that round to the
\* same float, one whose last vertex is moved by the rounding
VertexTables ==
  {<< <<0, 0, 0>>, <<1, 0, 0>>, <<4, 0, 0>>, <<0, 4, 0>> >>,
   << <<0, 0, 0>>, <<4, 0, 0>>, <<4, 4, 0>>, <<0, 5, 0>> >>}

\* the polygons of at most n indices over a vertex array of nv entries
Polygons(nv, n) == UNION {[1..k -> 0..(nv - 1)] : k \in 0..n}

\* at most k polygons holding at most n indices between them
RECURSIVE IndexLists(_, _, _)
IndexLists(nv, k, n) ==
  IF k = 0 THEN {<<>>}
  ELSE {<<>>} \cup
       UNION {{<<pgon>> \o rest : rest \in IndexLists(nv, k - 1, n - Len(pgon))} :
                pgon \in Polygons(nv, n)}

\* the input meshes over the vertex array vt
TessInputs(vt) ==
  [oid : {1}, dim : {3}, vertices : {vt},
   indices : IndexLists(Len(vt), MaxFaces, MaxIndices),
   convexity : {1}, convex : {"unknown"}]

TessInit ==
  /\ manifold_ = [a \in Adapters |-> IF a = "A" THEN 1 ELSE 2]
  /\ heap = [i \in SolidIds |-> EmptyManifold]
  /\ NDEBUG = TRUE
  /\ crashed = "no"
  /\ emitted = <<>>
  /\ last = [op |-> "init", self |-> "-", other |-> "-", arg |-> NoArg,
             pre |-> [a \in Adapters |-> IF a = "A" THEN 1 ELSE 2],
             preHeap |-> [i \in SolidIds |-> EmptyManifold]]
  /\ ret = NoRet
  /\ \E vt \in VertexTables : \E polyset \in TessInputs(vt) :
       tess = [pc |-> "input", polyset |-> polyset,
               first |-> NewPolySet(3), second |-> NewPolySet(3),
               degeneratePolygons |-> 0]

\* tessellate_faces(polyset)
TessellateInput ==
  /\ tess.pc = "input"
  /\ \E r \in tessellate_faces(tess.polyset) :
       /\ tess' = [tess EXCEPT !.pc = "first", !.first = r.ps,
                               !.degeneratePolygons = r.degeneratePolygons]
       /\ emitted' = r.msgs
  /\ UNCHANGED <<manifold_, heap, NDEBUG, crashed, last, ret>>

\* tessellate_faces(first)
TessellateOutput ==
  /\ tess.pc = "first"
  /\ \E r \in tessellate_faces(tess.first) :
       /\ tess' = [tess EXCEPT !.pc = "second", !.second = r.ps,
                               !.degeneratePolygons = r.degeneratePolygons]
       /\ emitted' = r.msgs
  /\ UNCHANGED <<manifold_, heap, NDEBUG, crashed, last, ret>>

TessNext == TessellateInput \/ TessellateOutput

TessSpec == TessInit /\ [][TessNext]_vars

----------------------------------------------------------------------------
(* Claims about the adapter (Spec) *)

Mutators ==
  {"clear", "transform", "resize", "operator+=", "operator*=", "operator-=",
   "minkowski"}

BooleanOperators == {"operator+=", "operator*=", "operator-="}

IsError(msg) == msg \in {ErrNefFailed, ErrCGAL}

\* the solid adapter a held before the most recent call
Before(a) == last.preHeap[last.pre[a]]
\* the solid adapter a holds now
Now(a) == heap[manifold_[a]]

\* adapter b is as it was before the most recent call: the same object, with
\* the same contents, answering every query as before
Untouched(b) ==
  /\ manifold_[b] = last.pre[b]
  /\ Now(b) = Before(b)
  /\ Queries(heap, manifold_[b]) = Queries(last.preHeap, last.pre[b])

\* C1: a mutating operation on one adapter leaves every other adapter, also
\* one sharing its solid, holding the same unmodified object and answering
\* isEmpty, numFacets, numVertices, isValid, getBoundingBox and toPolySet as
\* before; only the calling adapter's reference is replaced.
C1_CopyIsolation ==
  last.op \in Mutators =>
    \A b \in Adapters \ {last.self} : Untouched(b)

\* C1 witness: the two adapters shared one solid, one of them was mutated and
\* now answers differently from the other
C1_Witness ==
  /\ last.op \in Mutators
  /\ \E b \in Adapters \ {last.self} :
       /\ last.pre[b] = last.pre[last.self]
       /\ manifold_[b] # manifold_[last.self]
       /\ Queries(heap, manifold_[b]) # Queries(heap, manifold_[last.self])

\* C2: an adapter whose solid carries an error stays invalid under every
\* operation other than clear(): transform, resize, +=, *=, -= and minkowski.
C2_InvalidIsTerminal ==
  (/\ last.op \in Mutators \ {"clear"}
   /\ crashed = "no"
   /\ ~isValid(last.preHeap, last.pre[last.self]))
    => ~isValid(heap, manifold_[last.self])

\* C3: +=, *= and -= leave the left-hand adapter in an error state whenever
\* either operand carried an error status.
C3_BooleanPropagatesError ==
  (/\ last.op \in BooleanOperators
   /\ crashed = "no"
   /\ \/ ~isValid(last.preHeap, last.pre[last.self])
      \/ ~isValid(last.preHeap, last.pre[last.other]))
    => ~isValid(heap, manifold_[last.self])

\* an operand of minkowski() that is empty once converted to a Nef polyhedron
EmptyAfterConversion(m) ==
  NefIsEmpty(createNefPolyhedronFromPolySet(toPolySetOf(m)))

MinkowskiWithEmptyOperand ==
  /\ last.op = "minkowski"
  /\ crashed = "no"
  /\ \/ EmptyAfterConversion(Before(last.self))
     \/ EmptyAfterConversion(Before(last.other))

MinkowskiLeavesEmptyValid ==
  /\ isEmpty(heap, manifold_[last.self])
  /\ isValid(heap, manifold_[last.self])
  /\ \A i \in DOMAIN emitted : ~IsError(emitted[i])

CtorAssert == "ManifoldGeometry(mani): assert(manifold_)"

----------------------------------------------------------------------------
(* Claims about the conversions (ConvSpec) *)

KnownGeometry ==
  {"PolySet", "CGAL_Nef_polyhedron", "CGALHybridPolyhedron",
   "ManifoldGeometry"}

\* C6: getGeometryAsPolySet returns null only for an input that is none of
\* the four known variants; a PolySet comes back as the same object; a Nef
\* polyhedron yields an empty 3-dimensional mesh when it is empty (nothing
\* logged) or when its conversion fails (an error logged), and otherwise the
\* converted mesh carrying the Nef's convexity.
C6_Dispatcher ==
  last.op = "getGeometryAsPolySet" =>
    LET geom == last.arg.geom
        N == geom.nef
    IN  /\ ret.null <=> geom.kind \notin KnownGeometry
        /\ geom.kind = "PolySet" => ret.ps = geom.ps /\ emitted = <<>>
        /\ geom.kind = "CGAL_Nef_polyhedron" =>
             IF NefIsEmpty(N)
             THEN ret.ps = NewPolySet(3) /\ emitted = <<>>
             ELSE IF ~last.arg.convOk
             THEN ret.ps = NewPolySet(3) /\ emitted = <<ErrNefFailed>>
             ELSE /\ ret.ps.convexity = N.convexity
                  /\ MeshCells(ret.ps) = N.cells
                  /\ ret.ps.oid = 0
                  /\ emitted = <<>>

\* C6 witness: a non-empty Nef polyhedron whose conversion failed came back as
\* an empty mesh with the error logged
C6_Witness ==
  /\ last.op = "getGeometryAsPolySet"
  /\ last.arg.geom.kind = "CGAL_Nef_polyhedron"
  /\ ~NefIsEmpty(last.arg.geom.nef)
  /\ ~last.arg.convOk
  /\ ~ret.null
  /\ PolySetIsEmpty(ret.ps)
  /\ emitted = <<ErrNefFailed>>

\* C8: when the exact kernel rejects a builder call, toPolyhedron logs an
\* error and returns a non-null handle to an empty polyhedron holding nothing
\* of the partially streamed surface.
C8_RejectionYieldsEmpty ==
  (last.op = "toPolyhedron" /\ last.arg.rejectAt > 0) =>
    /\ emitted = <<ErrCGAL>>
    /\ ~ret.null
    /\ ret.poly = EmptyPolyhedron

----------------------------------------------------------------------------
(* Claims about tessellate_faces (TessSpec) *)

\* every face is a triangle and every index is below the vertex count
TriangleMesh(ps) ==
  \A f \in DOMAIN ps.indices :
    /\ Len(ps.indices[f]) = 3
    /\ \A k \in 1..3 : ps.indices[f][k] \in 0..(Len(ps.vertices) - 1)

IndicesInRange(ps) ==
  \A f \in DOMAIN ps.indices : \A k \in DOMAIN ps.indices[f] :
    ps.indices[f][k] \in 0..(Len(ps.vertices) - 1)

\* C4: for an input whose indices are all below its vertex count, and for
\* every outcome of the triangulator, every face of the mesh tessellate_faces
\* returns has exactly 3 indices, each below the returned vertex count.
C4_TriangleOutput ==
  /\ (tess.pc \in {"first", "second"} /\ IndicesInRange(tess.polyset))
       => TriangleMesh(tess.first)
  /\ (tess.pc = "second" /\ IndicesInRange(tess.first))
       => TriangleMesh(tess.second)

\* C4 witness: a polygon of four indices went through the triangulator and
\* came back as two triangles
C4_Witness ==
  /\ tess.pc = "first"
  /\ \E f \in DOMAIN tess.polyset.indices : Len(tess.polyset.indices[f]) = 4
  /\ Len(tess.first.indices) >= 2

\* the indices left of a polygon after deduplication, the collapse of
\* consecutive duplicates and the removal of the closing duplicate
Usable(vertices, pgon) ==
  IF pgon = <<>> THEN <<>>
  ELSE CloseLoop(IndexLoop(vertices, pgon, <<>>, <<>>).currface)

\* the input faces dropped for having fewer than 3 usable vertices
DroppedFaces(ps) ==
  {f \in DOMAIN ps.indices :
     Len(ps.indices[f]) < 3 \/ Len(Usable(ps.vertices, ps.indices[f])) < 3}

\* C5: every face dropped for having fewer than 3 usable vertices is counted
\* as degenerate, and the warning is logged once exactly when a face was
\* dropped this way.
C5_DegenerateCounted ==
  tess.pc = "first" =>
    /\ tess.degeneratePolygons = Cardinality(DroppedFaces(tess.polyset))
    /\ emitted = IF DroppedFaces(tess.polyset) # {} THEN <<WarnDegenerate>>
                 ELSE <<>>

\* the faces of a mesh as triples of vertex positions, in order
FacePositions(ps) ==
  [f \in DOMAIN ps.indices |->
     [k \in DOMAIN ps.indices[f] |-> ps.vertices[ps.indices[f][k] + 1]]]

TriangleSet(ps) == {FacePositions(ps)[f] : f \in DOMAIN ps.indices}

\* C9: tessellating the output of tessellate_faces again yields the same
\* triangles as triples of positions; every face of the first output passes
\* through unchanged, none dropped, collapsed or triangulated again.
C9_Idempotent ==
  tess.pc = "second" =>
    /\ TriangleSet(tess.second) = TriangleSet(tess.first)
    /\ FacePositions(tess.second) = FacePositions(tess.first)
    /\ tess.degeneratePolygons = 0
    /\ emitted = <<>>

\* C9 witness: the second pass returned the two triangles of the first, over
\* a vertex array it indexed anew
C9_Witness ==
  /\ tess.pc = "second"
  /\ Len(tess.first.indices) >= 2
  /\ tess.second.vertices # tess.first.vertices
  /\ tess.second.indices # tess.first.indices

====
